---- MODULE Spec2Model ----
(***************************************************************************)
(* Model of the RE Chain physics-preview layer:                            *)
(*   modules/re_chain_physics.py            (helpers)                      *)
(*   modules/re_chain_preview_operators.py  (the four operators)           *)
(* The host scene (objects, constraints, armature bones, selection, mode)  *)
(* is the state; each operator execution is one action.  The scene has one *)
(* armature; the host lets an object enter the modes of its type, and the  *)
(* errors it raises are inputs of the execution.                           *)
(***************************************************************************)
EXTENDS Integers, Sequences, FiniteSets, TLC

\* ------------------------------------------------------------------------
\* Program constants (re_chain_physics.py:5-8)
PHYSICS_BONE_PROP == "RE_CHAIN_IS_PHYSICS_BONE"
PHYSICS_PREVIEW_CONSTRAINT == "RE Chain Preview"
PHYSICS_NODE_CONSTRAINT_FLAG == "RE_CHAIN_PREVIEW_MUTED"
PHYSICS_BONE_COLLECTION_NAME == "RE Chain Physics"

\* The elements of a list
Elems(seq) == {seq[i] : i \in 1..Len(seq)}

\* Python's None, for object references and names
None == "None"
\* An omitted `nodes` argument (nodes=None); a node list never holds None
NoNodes == <<None>>

\* ------------------------------------------------------------------------
\* The scene: the objects of the host file
\* Number of operator executions followed from the initial scene
MaxOps == 3

ChainNodes == {"n1", "n2", "n3"}
Objects == ChainNodes \cup {"hdr", "mesh", "arm"}
Collections == {"c1", "c2", "c3"}
\* bpy.context.scene.objects, in order
SceneObjects == <<"hdr", "n1", "n2", "n3", "mesh", "arm">>

\* obj.type
ObjType(o) ==
  IF o = "arm" THEN "ARMATURE" ELSE IF o = "mesh" THEN "MESH" ELSE "EMPTY"

\* obj.get("TYPE", None)
TypeProp(o) ==
  IF o \in ChainNodes THEN "RE_CHAIN_NODE"
  ELSE IF o = "hdr" THEN "RE_CHAIN_HEADER" ELSE None

\* Interaction modes the host offers for an object of a type
ModesOf(t) ==
  IF t = "ARMATURE" THEN {"OBJECT", "EDIT", "POSE"}
  ELSE IF t = "MESH" THEN {"OBJECT", "EDIT"} ELSE {"OBJECT"}

VARIABLES
  all_objects,           \* collection -> its objects, in listing order (fixed)
  parentOf,              \* object -> obj.parent (fixed)
  location,              \* object -> place of its origin along the chain,
                         \* in armature space, in units of 1e-6 (fixed)
  chainCollection,       \* tool.chainCollection
  physicsPreviewEnabled, \* tool.physicsPreviewEnabled
  constraints,           \* node -> node.constraints
  bones,                 \* armature.data.bones: name -> bone
  pose,                  \* armature.pose.bones: name -> pose_bone.constraints
  active_bone,           \* armature.data.bones.active
  keyed,                 \* bones the bake wrote keyframes for
  active,                \* view_layer.objects.active
  selected,              \* context.selected_objects
  mode,                  \* mode of the active object
  last,                  \* the last operator execution and its outcome
  pre,                   \* the state that execution started from
  ops                    \* number of operator executions so far

vars == <<all_objects, parentOf, location, chainCollection,
          physicsPreviewEnabled, constraints, bones, pose, active_bone,
          keyed, active, selected, mode, last, pre, ops>>

\* ------------------------------------------------------------------------
\* The mutable host state an operator works on, as one record
World ==
  [constraints |-> constraints, bones |-> bones, edit_bones |-> bones,
   pose |-> pose, active_bone |-> active_bone, keyed |-> keyed,
   active |-> active, selected |-> selected, mode |-> mode,
   enabled |-> physicsPreviewEnabled]

\* bpy.ops.object.mode_set(mode=m): acts on the active object; raises (ok =
\* FALSE) when there is none or its type has no such mode.  Entering EDIT on
\* an armature loads the edit bones, leaving it writes them back and gives
\* every new bone a pose bone without constraints.
mode_set(w, m) ==
  IF w.active = None \/ m \notin ModesOf(ObjType(w.active))
  THEN [w |-> w, ok |-> FALSE]
  ELSE IF ObjType(w.active) = "ARMATURE" /\ w.mode = "EDIT" /\ m # "EDIT"
  THEN [w |-> [w EXCEPT !.mode = m, !.bones = w.edit_bones,
                 !.pose = [b \in DOMAIN w.edit_bones |->
                            IF b \in DOMAIN w.pose THEN w.pose[b] ELSE <<>>]],
        ok |-> TRUE]
  ELSE IF ObjType(w.active) = "ARMATURE" /\ w.mode # "EDIT" /\ m = "EDIT"
  THEN [w |-> [w EXCEPT !.mode = m, !.edit_bones = w.bones], ok |-> TRUE]
  ELSE [w |-> [w EXCEPT !.mode = m], ok |-> TRUE]

\* try: bpy.ops.object.mode_set(mode=m)  except Exception: pass
try_mode_set(w, m) == mode_set(w, m).w

\* ------------------------------------------------------------------------
\* re_chain_physics.py

get_chain_nodes(chain_collection) ==
  LET cc == IF chain_collection = None THEN chainCollection
            ELSE chain_collection
  IN IF cc = None THEN <<>>
     ELSE SelectSeq(all_objects[cc], LAMBDA o : TypeProp(o) = "RE_CHAIN_NODE")

\* First constraint target of type ARMATURE, nodes and constraints in order
RECURSIVE FirstArmatureTarget(_, _, _, _)
FirstArmatureTarget(w, nodes, i, j) ==
  IF i > Len(nodes) THEN None
  ELSE IF j > Len(w.constraints[nodes[i]])
  THEN FirstArmatureTarget(w, nodes, i + 1, 1)
  ELSE LET t == w.constraints[nodes[i]][j].target
       IN IF t # None /\ ObjType(t) = "ARMATURE" THEN t
          ELSE FirstArmatureTarget(w, nodes, i, j + 1)

\* First armature of the scene that carries a bone named after a node
RECURSIVE FirstSceneArmature(_, _, _)
FirstSceneArmature(w, nodes, k) ==
  IF k > Len(SceneObjects) THEN None
  ELSE LET obj == SceneObjects[k]
       IN IF ObjType(obj) = "ARMATURE"
             /\ (nodes = <<>>
                 \/ \E i \in 1..Len(nodes) : nodes[i] \in DOMAIN w.bones)
          THEN obj
          ELSE FirstSceneArmature(w, nodes, k + 1)

\* As find_chain_armature, but the scan of the scene takes the first armature
\* whatever bones it has
find_chain_armature_AnyArmature(w, chain_collection, nodes) ==
  LET ns == IF nodes = NoNodes THEN get_chain_nodes(chain_collection)
            ELSE nodes
      t == FirstArmatureTarget(w, ns, 1, 1)
  IN IF t # None THEN t
     ELSE IF w.active # None /\ ObjType(w.active) = "ARMATURE" THEN w.active
     ELSE FirstSceneArmature(w, <<>>, 1)

find_chain_armature(w, chain_collection, nodes) ==
  LET ns == IF nodes = NoNodes THEN get_chain_nodes(chain_collection)
            ELSE nodes
      t == FirstArmatureTarget(w, ns, 1, 1)
  IN IF t # None THEN t
     ELSE IF w.active # None /\ ObjType(w.active) = "ARMATURE" THEN w.active
     ELSE FirstSceneArmature(w, ns, 1)

\* raiseEdit: the host refuses to put the armature into EDIT mode
_enter_edit_mode(w, armature, raiseEdit) ==
  LET previous_active == w.active
      previous_mode == IF previous_active # None THEN w.mode ELSE "OBJECT"
      previous_selection == w.selected
      w1 == IF previous_active # None /\ w.mode # "OBJECT"
            THEN try_mode_set(w, "OBJECT") ELSE w
      w2 == [w1 EXCEPT !.selected = {armature}, !.active = armature]
      m == mode_set(w2, "EDIT")
  IN [w |-> IF raiseEdit THEN w2 ELSE m.w,
      raised |-> raiseEdit \/ ~m.ok,
      previous_state |-> [active |-> previous_active, mode |-> previous_mode,
                          selection |-> previous_selection]]

\* As _exit_edit_mode, but the previous mode is not entered again
_exit_edit_mode_NoModeRestore(w, armature, previous_state) ==
  LET w1 == try_mode_set(w, "OBJECT")
  IN [w1 EXCEPT !.selected = previous_state.selection,
                !.active = previous_state.active]

_exit_edit_mode(w, armature, previous_state) ==
  LET w1 == try_mode_set(w, "OBJECT")
      w2 == [w1 EXCEPT !.selected = previous_state.selection,
                       !.active = previous_state.active]
  IN IF previous_state.active # None /\ previous_state.mode # "OBJECT"
     THEN try_mode_set(w2, previous_state.mode) ELSE w2

\* First child of the node that is a chain node (node.children, scene order)
RECURSIVE FirstChildNode(_, _)
FirstChildNode(node, k) ==
  IF k > Len(SceneObjects) THEN None
  ELSE IF parentOf[SceneObjects[k]] = node
          /\ TypeProp(SceneObjects[k]) = "RE_CHAIN_NODE"
  THEN SceneObjects[k]
  ELSE FirstChildNode(node, k + 1)

\* Lengths are integers in units of 1e-6
\* The tail of a bone without child node lies 0.05 along the node's axis
TAIL_OFFSET == 50000
\* A bone shorter than 1e-5 ...
MIN_LENGTH == 10
\* ... gets the length 0.05
DEFAULT_LENGTH == 50000

\* The distance between two places
Distance(a, b) == IF a < b THEN b - a ELSE a - b

\* The bone takes the node's matrix (kept as the name of the node it is
\* computed from), the distance from the node to its first child node (to a
\* point 0.05 away without one) as its length, the default length when
\* that distance is below 1e-5, and is disconnected
_update_edit_bone_from_node(edit_bone, node) ==
  LET child_node == FirstChildNode(node, 1)
      head_local == location[node]
      tail_local == IF child_node # None THEN location[child_node]
                    ELSE head_local + TAIL_OFFSET
      length == Distance(tail_local, head_local)
  IN [edit_bone EXCEPT !.matrix = node,
                       !.length = IF length < MIN_LENGTH THEN DEFAULT_LENGTH
                                  ELSE length,
                       !.use_connect = FALSE]

\* edit_bones.new(name)
NewEditBone ==
  [parent |-> None, prop |-> FALSE, matrix |-> "new", length |-> 0,
   use_connect |-> FALSE, coll |-> FALSE, select |-> FALSE]

\* One iteration of the loop over the nodes (re_chain_physics.py:112-138).
\* coll: the bone is in the bone collection "RE Chain Physics" (host 4.0 and
\* later) or on layer 31 alone (before); prop: RE_CHAIN_IS_PHYSICS_BONE
EnsureNode(w, node) ==
  LET bone_name == node
      exists == bone_name \in DOMAIN w.edit_bones
      eb0 == IF exists THEN w.edit_bones
             ELSE w.edit_bones @@ (bone_name :> NewEditBone)
      managed == IF exists THEN w.bones[bone_name].prop ELSE TRUE
      eb1 == IF managed
             THEN [eb0 EXCEPT ![bone_name] =
                    _update_edit_bone_from_node(
                      [eb0[bone_name] EXCEPT !.prop = TRUE], node)]
             ELSE eb0
      parent_node == IF parentOf[node] # None
                        /\ TypeProp(parentOf[node]) = "RE_CHAIN_NODE"
                     THEN parentOf[node] ELSE None
      eb2 == IF parent_node # None /\ parent_node \in DOMAIN eb1
             THEN [eb1 EXCEPT ![bone_name].parent = parent_node]
             ELSE IF managed THEN [eb1 EXCEPT ![bone_name].parent = None]
             ELSE eb1
      eb3 == IF managed THEN [eb2 EXCEPT ![bone_name].coll = TRUE] ELSE eb2
  IN [w |-> [w EXCEPT !.edit_bones = eb3],
      created |-> IF exists THEN 0 ELSE 1]

\* for node in nodes: ...   raiseAt = i: an error is raised when the loop
\* reaches the i-th node (0: none)
RECURSIVE EnsureLoop(_, _, _, _, _)
EnsureLoop(w, nodes, i, created_count, raiseAt) ==
  IF i > Len(nodes)
  THEN [w |-> w, created |-> created_count, raised |-> FALSE]
  ELSE IF raiseAt = i
  THEN [w |-> w, created |-> created_count, raised |-> TRUE]
  ELSE LET s == EnsureNode(w, nodes[i])
       IN EnsureLoop(s.w, nodes, i + 1, created_count + s.created, raiseAt)

\* What ensure_physics_bones hands back: (armature, nodes, created_count),
\* or the error that left it
EnsureResult(w, armature, nodes, created, error) ==
  [w |-> w, armature |-> armature, nodes |-> nodes, created |-> created,
   raised |-> error # "", error |-> error]

\* finally: _exit_edit_mode(armature, previous_state)
\* (re_chain_physics.py:139-141)
EnsureExit(l, armature, nodes, previous_state) ==
  EnsureResult(_exit_edit_mode(l.w, armature, previous_state), armature,
               nodes, l.created, IF l.raised THEN "editing bones" ELSE "")

\* try: the loop over the nodes (re_chain_physics.py:108-138)
EnsureEdit(e, armature, nodes, f) ==
  IF e.raised
  THEN EnsureResult(e.w, armature, nodes, 0, "mode_set(mode='EDIT')")
  ELSE EnsureExit(EnsureLoop(e.w, nodes, 1, 0, f.at), armature, nodes,
                  e.previous_state)

\* With the armature looked up (re_chain_physics.py:104-108)
EnsureOnArmature(w, armature, nodes, f) ==
  IF armature = None THEN EnsureResult(w, None, nodes, 0, "")
  ELSE EnsureEdit(_enter_edit_mode(w, armature, f.edit), armature, nodes, f)

\* With the nodes looked up (re_chain_physics.py:100-103)
EnsureOnNodes(w, chain_collection, armature, nodes, f) ==
  IF nodes = <<>> THEN EnsureResult(w, None, <<>>, 0, "")
  ELSE EnsureOnArmature(
         w,
         IF armature = None
         THEN find_chain_armature(w, chain_collection, nodes) ELSE armature,
         nodes, f)

\* f: the host errors met in this call, [edit |-> BOOLEAN, at |-> 0..n]
ensure_physics_bones(w, chain_collection, armature, nodes, f) ==
  EnsureOnNodes(
    w, chain_collection, armature,
    IF nodes = NoNodes THEN get_chain_nodes(chain_collection) ELSE nodes, f)

\* pose_bone.constraints.new('COPY_TRANSFORMS')
NewCopyTransforms ==
  [name |-> "Copy Transforms", type |-> "COPY_TRANSFORMS", target |-> None,
   subtarget |-> "", owner_space |-> "WORLD", target_space |-> "WORLD",
   mute |-> FALSE, influence |-> 100]

\* Least index in the set, 0 when it is empty
FirstIndex(S) ==
  IF S = {} THEN 0 ELSE CHOOSE i \in S : \A j \in S : i <= j

\* The body of the loop over the nodes' pose bones
\* (re_chain_physics.py:151-169); influence is in percent
EnablePoseBone(w, node) ==
  IF node \notin DOMAIN w.pose THEN w
  ELSE
  LET cs == w.pose[node]
      found == FirstIndex({i \in 1..Len(cs) :
                             /\ cs[i].name = PHYSICS_PREVIEW_CONSTRAINT
                             /\ cs[i].type = "COPY_TRANSFORMS"})
      cs1 == IF found = 0
             THEN Append(cs, [NewCopyTransforms EXCEPT
                                !.name = PHYSICS_PREVIEW_CONSTRAINT])
             ELSE cs
      k == IF found = 0 THEN Len(cs1) ELSE found
      cs2 == [cs1 EXCEPT ![k] = [cs1[k] EXCEPT
                !.target = node, !.subtarget = "", !.owner_space = "WORLD",
                !.target_space = "WORLD", !.mute = FALSE, !.influence = 100]]
  IN [w EXCEPT !.pose[node] = cs2, !.bones[node].prop = TRUE]

RECURSIVE EnablePoseLoop(_, _, _)
EnablePoseLoop(w, nodes, i) ==
  IF i > Len(nodes) THEN w
  ELSE EnablePoseLoop(EnablePoseBone(w, nodes[i]), nodes, i + 1)

\* As MuteNodeConstraint, but the constraint is only flagged
MuteNodeConstraint_FlagOnly(c) ==
  IF c.type \in {"COPY_LOCATION", "COPY_ROTATION"}
     /\ c.name \in {"BoneName", "BoneRotation"}
     /\ ~c.flag
  THEN [c EXCEPT !.flag = TRUE]
  ELSE c

\* The node's own constraints step aside (re_chain_physics.py:171-175)
MuteNodeConstraint(c) ==
  IF c.type \in {"COPY_LOCATION", "COPY_ROTATION"}
     /\ c.name \in {"BoneName", "BoneRotation"}
     /\ ~c.flag
  THEN [c EXCEPT !.flag = TRUE, !.mute = TRUE]
  ELSE c

MuteNodeConstraints(w, nodes) ==
  LET ns == {nodes[i] : i \in 1..Len(nodes)}
  IN [w EXCEPT !.constraints =
        [n \in DOMAIN w.constraints |->
           IF n \in ns
           THEN [j \in 1..Len(w.constraints[n]) |->
                   MuteNodeConstraint(w.constraints[n][j])]
           ELSE w.constraints[n]]]

\* After the bones are ensured (re_chain_physics.py:146-176)
EnableOnBones(r) ==
  IF r.raised
  THEN [w |-> r.w, armature |-> r.armature, active_bones |-> <<>>,
        raised |-> TRUE, error |-> r.error]
  ELSE IF r.armature = None
  THEN [w |-> r.w, armature |-> None, active_bones |-> <<>>,
        raised |-> FALSE, error |-> ""]
  ELSE [w |-> MuteNodeConstraints(EnablePoseLoop(r.w, r.nodes, 1), r.nodes),
        armature |-> r.armature,
        active_bones |-> SelectSeq(r.nodes, LAMBDA n : n \in DOMAIN r.w.pose),
        raised |-> FALSE, error |-> ""]

enable_physics_preview(w, chain_collection, armature, nodes, f) ==
  EnableOnBones(ensure_physics_bones(w, chain_collection, armature, nodes, f))

\* Flagged node constraints come back (re_chain_physics.py:189-194)
UnmuteNodeConstraint(c) ==
  IF c.flag THEN [c EXCEPT !.mute = FALSE, !.flag = FALSE] ELSE c

\* pose_bone.constraints.get(name): index of the entry of that name, or 0
ConstraintIndex(cs, name) ==
  FirstIndex({i \in 1..Len(cs) : cs[i].name = name})

RemoveAt(cs, k) ==
  [j \in 1..(Len(cs) - 1) |-> IF j < k THEN cs[j] ELSE cs[j + 1]]

\* The preview constraint of one pose bone is muted or removed
\* (re_chain_physics.py:196-201)
DisablePoseBone(cs, clear_constraints) ==
  LET k == ConstraintIndex(cs, PHYSICS_PREVIEW_CONSTRAINT)
  IN IF k = 0 THEN cs
     ELSE IF clear_constraints THEN RemoveAt(cs, k)
     ELSE [cs EXCEPT ![k].mute = TRUE]

disable_physics_preview(w, chain_collection, armature, nodes, clear_constraints) ==
  LET ns == IF nodes = NoNodes THEN get_chain_nodes(chain_collection)
            ELSE nodes
  IN IF ns = <<>> THEN [w |-> w, armature |-> None, changed |-> FALSE]
     ELSE
     LET a == IF armature = None
              THEN find_chain_armature(w, chain_collection, ns)
              ELSE armature
     IN IF a = None THEN [w |-> w, armature |-> None, changed |-> FALSE]
        ELSE
        LET nset == {ns[i] : i \in 1..Len(ns)}
            changedNodes ==
              \E n \in nset : \E j \in 1..Len(w.constraints[n]) :
                 w.constraints[n][j].flag
            changedBones ==
              \E b \in DOMAIN w.pose :
                 ConstraintIndex(w.pose[b], PHYSICS_PREVIEW_CONSTRAINT) # 0
        IN [w |-> [w EXCEPT
                     !.constraints =
                       [n \in DOMAIN w.constraints |->
                          IF n \in nset
                          THEN [j \in 1..Len(w.constraints[n]) |->
                                  UnmuteNodeConstraint(w.constraints[n][j])]
                          ELSE w.constraints[n]],
                     !.pose =
                       [b \in DOMAIN w.pose |->
                          DisablePoseBone(w.pose[b], clear_constraints)]],
            armature |-> a,
            changed |-> changedNodes \/ changedBones]

\* ------------------------------------------------------------------------
\* re_chain_preview_operators.py

\* blender_re_chain.setChainBoneColor: colour tags only, none of the state
\* kept here
setChainBoneColor(w, armature) == w

\* Host errors met during one execution: at most one, at a named place; a
\* second call of ensure_physics_bones in the same execution meets none.
\*   edit: mode_set(mode='EDIT') raises in the operator's first call of
\*         ensure_physics_bones
\*   loop: an error is raised when that call's loop reaches node `at`
\*   pose: mode_set(mode='POSE') raises in the bake
\*   cancelled/error: bpy.ops.nla.bake returns CANCELLED / raises
NoFault == [site |-> "none", at |-> 0]
EnsureFaults ==
  {[site |-> "edit", at |-> 0]} \cup {[site |-> "loop", at |-> k] : k \in 1..2}
\* The part of the fault that ensure_physics_bones meets
F(f) ==
  [edit |-> f.site = "edit", at |-> IF f.site = "loop" THEN f.at ELSE 0]

NoBake == [called |-> FALSE]

\* result: what execute returns, or RAISED when an error leaves it; report:
\* the text of self.report, or of the error
Outcome(w, result, report, created, bake) ==
  [w |-> w, result |-> result, report |-> report, created |-> created,
   bake |-> bake]

\* After ensure_physics_bones (re_chain_preview_operators.py:26-34)
CreateReport(r) ==
  IF r.raised THEN Outcome(r.w, "RAISED", r.error, r.created, NoBake)
  ELSE IF r.armature = None \/ r.nodes = <<>>
  THEN Outcome(r.w, "CANCELLED",
         "Unable to find chain nodes or a target armature for the active collection.",
         0, NoBake)
  ELSE Outcome(setChainBoneColor(r.w, r.armature), "FINISHED",
         IF r.created > 0 THEN "Created physics bones"
         ELSE "already up to date",
         r.created, NoBake)

\* WM_OT_CreatePhysicsBones.execute
WM_OT_CreatePhysicsBones(w, f) ==
  IF chainCollection = None
  THEN Outcome(w, "CANCELLED", "Active chain collection is not set.", 0,
               NoBake)
  ELSE CreateReport(
         ensure_physics_bones(w, chainCollection, None, NoNodes, F(f)))

\* After enable_physics_preview (re_chain_preview_operators.py:54-57)
EnableReport(e, created) ==
  IF e.raised THEN Outcome(e.w, "RAISED", e.error, created, NoBake)
  ELSE Outcome([setChainBoneColor(e.w, e.armature) EXCEPT !.enabled = TRUE],
               "FINISHED", "Physics preview enabled", created, NoBake)

\* After ensure_physics_bones (re_chain_preview_operators.py:50-53)
EnableOnBonesReady(r, chain_collection) ==
  IF r.raised THEN Outcome(r.w, "RAISED", r.error, r.created, NoBake)
  ELSE IF r.armature = None \/ r.nodes = <<>>
  THEN Outcome(r.w, "CANCELLED",
         "Unable to find chain nodes or an armature for the active collection.",
         0, NoBake)
  ELSE EnableReport(
         enable_physics_preview(r.w, chain_collection, r.armature, r.nodes,
                                F(NoFault)),
         r.created)

\* WM_OT_EnablePhysicsPreview.execute
WM_OT_EnablePhysicsPreview(w, f) ==
  IF chainCollection = None
  THEN Outcome(w, "CANCELLED", "Active chain collection is not set.", 0,
               NoBake)
  ELSE EnableOnBonesReady(
         ensure_physics_bones(w, chainCollection, None, NoNodes, F(f)),
         chainCollection)

\* After disable_physics_preview (re_chain_preview_operators.py:77-82)
DisableReport(d) ==
  IF d.armature = None \/ ~d.changed
  THEN Outcome(d.w, "CANCELLED", "Physics preview is not active.", 0, NoBake)
  ELSE Outcome([d.w EXCEPT !.enabled = FALSE], "FINISHED",
               "Physics preview disabled.", 0, NoBake)

\* With the nodes looked up (re_chain_preview_operators.py:73-76)
DisableOnNodes(w, chain_collection, nodes) ==
  IF nodes = <<>>
  THEN Outcome(w, "CANCELLED",
         "No chain nodes were found for the active collection.", 0, NoBake)
  ELSE DisableReport(
         disable_physics_preview(w, chain_collection, None, nodes, FALSE))

\* WM_OT_DisablePhysicsPreview.execute
WM_OT_DisablePhysicsPreview(w) ==
  IF chainCollection = None
  THEN Outcome(w, "CANCELLED", "Active chain collection is not set.", 0,
               NoBake)
  ELSE DisableOnNodes(w, chainCollection, get_chain_nodes(chainCollection))

\* pb.bone.select (with select_head and select_tail) cleared on every
\* bone, then set on the named ones that exist
SelectBones(w, names) ==
  [w EXCEPT !.bones = [b \in DOMAIN w.bones |->
                         [w.bones[b] EXCEPT !.select = (b \in names)]]]

\* The bake leaves the toggle as asked
\* (re_chain_preview_operators.py:182-186 and 219-223)
BakeSettle(w, chain_collection, armature, nodes, was_enabled, clear) ==
  IF ~was_enabled \/ clear
  THEN [disable_physics_preview(w, chain_collection, armature, nodes,
                                clear).w EXCEPT !.enabled = FALSE]
  ELSE [w EXCEPT !.enabled = TRUE]

\* As BakeFinally, but the bone selection is not put back
BakeFinally_NoBoneSelection(w, armature, original) ==
  LET w1 == try_mode_set(w, "OBJECT")
      w2 == [w1 EXCEPT !.selected = original.selected,
                       !.active = original.active]
  IN IF original.active # None /\ original.mode # "OBJECT"
     THEN try_mode_set(w2, original.mode) ELSE w2

\* The finally block of the bake (re_chain_preview_operators.py:189-218)
BakeFinally(w, armature, original) ==
  LET w1 == try_mode_set(w, "OBJECT")
      w2 == [w1 EXCEPT !.selected = original.selected,
                       !.active = original.active]
      m == mode_set(w2, "POSE")
      w3 == IF original.active = armature /\ original.mode = "POSE"
            THEN IF m.ok THEN SelectBones(m.w, original.bone_selection)
                 ELSE m.w
            ELSE w2
  IN IF original.active # None /\ original.mode # "OBJECT"
     THEN try_mode_set(w3, original.mode) ELSE w3

\* What the bake saved of the host selection state
\* (re_chain_preview_operators.py:143-148)
OriginalState(w, armature) ==
  [active |-> w.active, selected |-> w.selected,
   mode |-> IF w.active # None THEN w.mode ELSE "OBJECT",
   bone_selection |->
     IF w.active = armature /\ w.mode = "POSE"
     THEN {b \in DOMAIN w.bones : w.bones[b].select} ELSE {}]

\* The record of the call of bpy.ops.nla.bake: the bones selected, the
\* frame range, and the constraints at that moment
BakeCall(w, names, frames) ==
  [called |-> TRUE, bones |-> names,
   frame_start |-> IF frames[2] < frames[1] THEN frames[2] ELSE frames[1],
   frame_end |-> IF frames[2] < frames[1] THEN frames[1] ELSE frames[2],
   pose |-> w.pose, constraints |-> w.constraints]

\* bpy.ops.nla.bake on the selected bones and what follows it
\* (re_chain_preview_operators.py:169-188 and 219-225); x: the execution's
\* fixed values
BakeRun(w, names, original, x) ==
  IF x.f.site \in {"cancelled", "error"}
  THEN Outcome(
         BakeFinally(
           BakeSettle(w, x.chain_collection, x.armature, x.nodes,
                      x.was_enabled, x.clear),
           x.armature, original),
         "CANCELLED", "Failed to bake physics preview", x.created,
         BakeCall(w, names, x.frames))
  ELSE Outcome(
         BakeSettle(
           BakeFinally([w EXCEPT !.keyed = w.keyed \cup names], x.armature,
                       original),
           x.chain_collection, x.armature, x.nodes, x.was_enabled, x.clear),
         "FINISHED", "Baked physics preview", x.created,
         BakeCall(w, names, x.frames))

\* After the switch to POSE mode (re_chain_preview_operators.py:159-168);
\* w2: the state before the switch, m: its result
BakeInPoseMode(w2, m, pose_bones, original, x) ==
  IF x.f.site = "pose" \/ ~m.ok
  THEN Outcome(BakeFinally(w2, x.armature, original), "RAISED",
               "mode_set(mode='POSE')", x.created, NoBake)
  ELSE BakeRun([SelectBones(m.w, Elems(pose_bones))
                  EXCEPT !.active_bone = pose_bones[1]],
               Elems(pose_bones), original, x)

\* The armature alone is selected and active
\* (re_chain_preview_operators.py:150-159)
BakeSelectArmature(w2, pose_bones, original, x) ==
  BakeInPoseMode(w2, mode_set(w2, "POSE"), pose_bones, original, x)

\* With the pose bones to bake (re_chain_preview_operators.py:136-158)
BakeBones(w, pose_bones, x) ==
  IF pose_bones = <<>>
  THEN Outcome(
         IF ~x.was_enabled \/ x.clear
         THEN [disable_physics_preview(w, x.chain_collection, x.armature,
                 x.nodes, x.clear).w
               EXCEPT !.enabled = FALSE]
         ELSE w,
         "CANCELLED", "No physics bones were found to bake.", x.created,
         NoBake)
  ELSE BakeSelectArmature(
         [(IF w.active # None /\ w.mode # "OBJECT"
           THEN try_mode_set(w, "OBJECT") ELSE w)
          EXCEPT !.selected = {x.armature}, !.active = x.armature],
         pose_bones, OriginalState(w, x.armature), x)

\* After the preview is in place (re_chain_preview_operators.py:134-135)
BakeOnPreview(e, x) ==
  IF e.raised THEN Outcome(e.w, "RAISED", e.error, x.created, NoBake)
  ELSE BakeBones(e.w, SelectSeq(x.nodes, LAMBDA n : n \in DOMAIN e.w.pose), x)

\* After ensure_physics_bones (re_chain_preview_operators.py:126-133)
BakeOnBonesReady(r, chain_collection, clear, frames, f) ==
  IF r.raised THEN Outcome(r.w, "RAISED", r.error, r.created, NoBake)
  ELSE IF r.armature = None \/ r.nodes = <<>>
  THEN Outcome(r.w, "CANCELLED",
         "Unable to prepare physics bones for baking.", 0, NoBake)
  ELSE BakeOnPreview(
         IF ~r.w.enabled
         THEN enable_physics_preview(r.w, chain_collection, r.armature,
                                     r.nodes, F(NoFault))
         ELSE [w |-> r.w, raised |-> FALSE, error |-> ""],
         [chain_collection |-> chain_collection, armature |-> r.armature,
          nodes |-> r.nodes, created |-> r.created,
          was_enabled |-> r.w.enabled, clear |-> clear, frames |-> frames,
          f |-> f])

\* With the armature looked up (re_chain_preview_operators.py:122-125)
BakeOnArmature(w, chain_collection, nodes, armature, clear, frames, f) ==
  IF armature = None
  THEN Outcome(w, "CANCELLED",
         "Unable to find an armature for the active collection.", 0, NoBake)
  ELSE BakeOnBonesReady(
         ensure_physics_bones(w, chain_collection, armature, nodes, F(f)),
         chain_collection, clear, frames, f)

\* With the nodes looked up (re_chain_preview_operators.py:118-121)
BakeOnNodes(w, chain_collection, nodes, clear, frames, f) ==
  IF nodes = <<>>
  THEN Outcome(w, "CANCELLED",
         "No chain nodes were found for the active collection.", 0, NoBake)
  ELSE BakeOnArmature(w, chain_collection, nodes,
                      find_chain_armature(w, chain_collection, nodes),
                      clear, frames, f)

\* WM_OT_BakePhysicsPreview.execute; frames = <<frame_start, frame_end>>
WM_OT_BakePhysicsPreview(w, clear_preview_constraints, frames, f) ==
  IF chainCollection = None
  THEN Outcome(w, "CANCELLED", "Active chain collection is not set.", 0,
               NoBake)
  ELSE BakeOnNodes(w, chainCollection, get_chain_nodes(chainCollection),
                   clear_preview_constraints, frames, f)


\* ------------------------------------------------------------------------
\* The state machine

\* What an execution starts from, kept for the claims about its effect
Snapshot ==
  [chainCollection |-> chainCollection, enabled |-> physicsPreviewEnabled,
   constraints |-> constraints, bones |-> bones, pose |-> pose,
   active_bone |-> active_bone, keyed |-> keyed, active |-> active,
   selected |-> selected, mode |-> mode]

NodeConstraint(type, name, target, mute) ==
  [type |-> type, name |-> name, target |-> target, mute |-> mute,
   flag |-> FALSE]

\* An armature bone the user made
UserBone(parent, select) ==
  [parent |-> parent, prop |-> FALSE, matrix |-> "rest", length |-> 1000000,
   use_connect |-> TRUE, coll |-> FALSE, select |-> select]

\* Armatures as the user may have left them: without bones, or with a root
\* bone and a bone of their own named like node n1 that carries an IK
\* constraint
InitialBones ==
  { [b \in {} |-> UserBone(None, FALSE)],
    [b \in {"root", "n1"} |->
       IF b = "root" THEN UserBone(None, FALSE) ELSE UserBone("root", TRUE)] }

InitialPose(bs) ==
  [b \in DOMAIN bs |->
     IF b = "n1"
     THEN << [NewCopyTransforms EXCEPT !.name = "IK", !.type = "IK"] >>
     ELSE <<>>]

\* active object, selected objects, mode
InitialSelections ==
  { <<None, {}, "OBJECT">>,
    <<"arm", {"arm"}, "POSE">>,
    <<"mesh", {"n1"}, "EDIT">> }

\* Layouts of collection c1: its listing order, the parent of node n2 and
\* the place of n2 (n1 and all other objects lie at 0). n2 as child of n1
\* lies 5e-6 or 2e-5 from it and may be listed before it; n2 as child of
\* the header leaves n1 without child node
InitialScenes ==
  { << <<"hdr", "n1", "n2">>, "n1", 5 >>,
    << <<"hdr", "n1", "n2">>, "n1", 20 >>,
    << <<"n2", "hdr", "n1">>, "n1", 20 >>,
    << <<"hdr", "n1", "n2">>, "hdr", 20 >> }

Init ==
  /\ \E g \in InitialScenes :
       /\ all_objects = [c \in Collections |->
            IF c = "c1" THEN g[1] ELSE IF c = "c2" THEN <<"n3">>
            ELSE <<"hdr", "mesh">>]
       /\ parentOf = [o \in Objects |->
            IF o = "n1" THEN "hdr" ELSE IF o = "n2" THEN g[2] ELSE None]
       /\ location = [o \in Objects |-> IF o = "n2" THEN g[3] ELSE 0]
  /\ chainCollection \in Collections \cup {None}
  /\ physicsPreviewEnabled = FALSE
  /\ constraints \in
       { [n \in ChainNodes |->
            IF n = "n1"
            THEN << NodeConstraint("COPY_LOCATION", "BoneName", t, m) >>
            ELSE IF n = "n2"
            THEN << NodeConstraint("COPY_ROTATION", "BoneRotation", None,
                                   FALSE),
                    NodeConstraint("COPY_LOCATION", "Follow", "hdr", FALSE) >>
            ELSE << NodeConstraint("COPY_LOCATION", "BoneName", None,
                                   FALSE) >>] :
           t \in {"arm"}, m \in BOOLEAN }
  /\ bones \in InitialBones
  /\ pose = InitialPose(bones)
  /\ active_bone = None
  /\ keyed = {}
  /\ \E s \in InitialSelections :
       active = s[1] /\ selected = s[2] /\ mode = s[3]
  /\ last = [op |-> "none", result |-> "none", report |-> "", created |-> 0,
             clear |-> FALSE, bake |-> NoBake,
             prev |-> [op |-> "none", result |-> "none",
                       constraints |-> constraints]]
  /\ pre = Snapshot
  /\ ops = 0

\* The operator's outcome becomes the new state
Finish(op, clear, o) ==
  /\ ops < MaxOps
  /\ ops' = ops + 1
  /\ physicsPreviewEnabled' = o.w.enabled
  /\ constraints' = o.w.constraints
  /\ bones' = o.w.bones
  /\ pose' = o.w.pose
  /\ active_bone' = o.w.active_bone
  /\ keyed' = o.w.keyed
  /\ active' = o.w.active
  /\ selected' = o.w.selected
  /\ mode' = o.w.mode
  /\ last' = [op |-> op, result |-> o.result, report |-> o.report,
              created |-> o.created, clear |-> clear, bake |-> o.bake,
              prev |-> [op |-> last.op, result |-> last.result,
                        constraints |-> pre.constraints]]
  /\ pre' = Snapshot
  /\ UNCHANGED <<all_objects, parentOf, location, chainCollection>>

\* The user picks the active chain collection in the tool panel
SetChainCollection ==
  \E c \in Collections \cup {None} :
    /\ c # chainCollection
    /\ chainCollection' = c
    /\ last' = [op |-> "SetChainCollection", result |-> "FINISHED",
                report |-> "", created |-> 0, clear |-> FALSE,
                bake |-> NoBake,
                prev |-> [op |-> last.op, result |-> last.result,
                          constraints |-> pre.constraints]]
    /\ pre' = Snapshot
    /\ ops < MaxOps
    /\ ops' = ops + 1
    /\ UNCHANGED <<all_objects, parentOf, location, physicsPreviewEnabled,
                 constraints, bones, pose, active_bone, keyed, active,
                 selected, mode>>

CreatePhysicsBones ==
  \E f \in {NoFault} \cup EnsureFaults :
    Finish("Create", FALSE, WM_OT_CreatePhysicsBones(World, f))

EnablePhysicsPreview ==
  \E f \in {NoFault} \cup EnsureFaults :
    Finish("Enable", FALSE, WM_OT_EnablePhysicsPreview(World, f))

DisablePhysicsPreview ==
  Finish("Disable", FALSE, WM_OT_DisablePhysicsPreview(World))

BakeFaults ==
  {NoFault} \cup EnsureFaults
  \cup {[site |-> s, at |-> 0] : s \in {"pose", "cancelled", "error"}}

BakePhysicsPreview ==
  \E clear \in BOOLEAN, frames \in {<<1, 2>>, <<2, 1>>}, f \in BakeFaults :
    Finish("Bake", clear, WM_OT_BakePhysicsPreview(World, clear, frames, f))

Next ==
  \/ SetChainCollection
  \/ CreatePhysicsBones
  \/ EnablePhysicsPreview
  \/ DisablePhysicsPreview
  \/ BakePhysicsPreview

Spec == Init /\ [][Next]_vars

\* The four operators on the collection the session started with
NextOne ==
  \/ CreatePhysicsBones
  \/ EnablePhysicsPreview
  \/ DisablePhysicsPreview
  \/ BakePhysicsPreview

SpecOne == Init /\ [][NextOne]_vars

\* ------------------------------------------------------------------------
\* Vocabulary of the claims

Ops == {"Create", "Enable", "Disable", "Bake"}

\* The chain nodes of the active collection
ActiveNodes == Elems(get_chain_nodes(chainCollection))

\* A node constraint that drives the node from the armature
IsBoneConstraint(c) ==
  /\ c.type \in {"COPY_LOCATION", "COPY_ROTATION"}
  /\ c.name \in {"BoneName", "BoneRotation"}

Finished(op) == last.op = op /\ last.result = "FINISHED"

\* The host selection state is what it was before the execution
SelectionRestored ==
  /\ active = pre.active
  /\ selected = pre.selected
  /\ mode = pre.mode

\* Constraints of every kind are what they were before the execution
ConstraintsUnchanged == constraints = pre.constraints /\ pose = pre.pose

NothingModified ==
  /\ ConstraintsUnchanged
  /\ SelectionRestored
  /\ bones = pre.bones
  /\ active_bone = pre.active_bone
  /\ keyed = pre.keyed
  /\ physicsPreviewEnabled = pre.enabled

\* ---- C1 ----------------------------------------------------------------
\* C1: after Enable Physics Preview followed by Disable Physics Preview,
\* both FINISHED, every constraint of every chain node has the mute state it
\* had just before the Enable, and none carries RE_CHAIN_PREVIEW_MUTED.
EnableThenDisable ==
  /\ Finished("Disable")
  /\ last.prev.op = "Enable" /\ last.prev.result = "FINISHED"

C1_DisableRestoresMute ==
  EnableThenDisable =>
    \A n \in ChainNodes : \A j \in 1..Len(constraints[n]) :
      /\ constraints[n][j].mute = last.prev.constraints[n][j].mute
      /\ ~constraints[n][j].flag

\* ---- C2 ----------------------------------------------------------------
HasLivePreview(n) ==
  /\ n \in DOMAIN pose
  /\ \E k \in 1..Len(pose[n]) :
       /\ pose[n][k].name = PHYSICS_PREVIEW_CONSTRAINT
       /\ pose[n][k].type = "COPY_TRANSFORMS"
       /\ pose[n][k].target = n
       /\ ~pose[n][k].mute
       /\ pose[n][k].influence = 100

BoneConstraintsMuted(n) ==
  \A j \in 1..Len(constraints[n]) :
    IsBoneConstraint(constraints[n][j]) => constraints[n][j].mute

\* C2: whenever Enable Physics Preview returns FINISHED, every chain node of
\* the active collection has a pose bone of its name with an unmuted, full
\* influence COPY_TRANSFORMS constraint "RE Chain Preview" targeting it, its
\* BoneName/BoneRotation constraints are muted, and physicsPreviewEnabled
\* is True.
C2_EnableEstablishesPreview ==
  Finished("Enable") =>
    /\ \A n \in ActiveNodes : HasLivePreview(n) /\ BoneConstraintsMuted(n)
    /\ physicsPreviewEnabled

\* Enable finished on a two-node chain whose preview had been switched off
\* before and one of whose bones was made by the user
C2_Witness ==
  /\ Finished("Enable")
  /\ last.prev.op = "Disable" /\ last.prev.result = "FINISHED"
  /\ ActiveNodes = {"n1", "n2"}
  /\ "root" \in DOMAIN bones

\* ---- C3 ----------------------------------------------------------------
\* The bake returned after the physics bones were prepared
BakeReturned ==
  /\ last.op = "Bake"
  /\ last.report \in {"Baked physics preview",
                      "Failed to bake physics preview",
                      "No physics bones were found to bake."}

NoUnmutedPreview ==
  \A b \in DOMAIN pose : \A k \in 1..Len(pose[b]) :
    pose[b][k].name = PHYSICS_PREVIEW_CONSTRAINT => pose[b][k].mute

NoFlag ==
  \A n \in ChainNodes : \A j \in 1..Len(constraints[n]) :
    ~constraints[n][j].flag

\* C3: on every path of Bake Physics Preview that returns after the bones
\* were prepared: if the preview was enabled before and
\* clear_preview_constraints is False, physicsPreviewEnabled is True, the
\* node constraints are muted and the preview constraints unmuted; otherwise
\* physicsPreviewEnabled is False, no node constraint is flagged and no
\* preview constraint is unmuted.
C3_BakeKeepsToggle ==
  BakeReturned =>
    IF pre.enabled /\ ~last.clear
    THEN /\ physicsPreviewEnabled
         /\ \A n \in ActiveNodes : HasLivePreview(n) /\ BoneConstraintsMuted(n)
         /\ ConstraintsUnchanged
    ELSE /\ ~physicsPreviewEnabled
         /\ NoFlag
         /\ NoUnmutedPreview

\* ---- C4 ----------------------------------------------------------------
\* C4: when Bake Physics Preview runs with clear_preview_constraints = True
\* and returns FINISHED, no pose bone has a constraint named
\* "RE Chain Preview", every node constraint the preview had muted is
\* unmuted and unflagged, and physicsPreviewEnabled is False.
C4_BakeClearRemovesPreview ==
  (Finished("Bake") /\ last.clear) =>
    /\ \A b \in DOMAIN pose : \A k \in 1..Len(pose[b]) :
         pose[b][k].name # PHYSICS_PREVIEW_CONSTRAINT
    /\ \A n \in ChainNodes : \A j \in 1..Len(constraints[n]) :
         last.bake.constraints[n][j].flag =>
           ~constraints[n][j].mute /\ ~constraints[n][j].flag
    /\ ~physicsPreviewEnabled

\* ---- C5 ----------------------------------------------------------------
\* The preview was active in some respect when the execution started
PreviewActiveBefore ==
  \/ pre.enabled
  \/ \E n \in ChainNodes : \E j \in 1..Len(pre.constraints[n]) :
       pre.constraints[n][j].flag
  \/ \E b \in DOMAIN pre.pose : \E k \in 1..Len(pre.pose[b]) :
       /\ pre.pose[b][k].name = PHYSICS_PREVIEW_CONSTRAINT
       /\ ~pre.pose[b][k].mute

\* C5: Disable Physics Preview executed while the preview is not active
\* returns CANCELLED with "Physics preview is not active." and changes
\* nothing; it returns FINISHED only when the preview was active.
C5_DisableInactiveCancels ==
  (last.op = "Disable" /\ ActiveNodes # {} /\ ~PreviewActiveBefore) =>
    /\ last.result = "CANCELLED"
    /\ last.report = "Physics preview is not active."
    /\ NothingModified

\* ---- C6 ----------------------------------------------------------------
MissingBefore == {n \in ActiveNodes : n \notin DOMAIN pre.bones}

\* C6: Create Physics Bones creates exactly one bone for each chain node
\* without a bone of its name and reports that count; a second execution
\* right after creates 0 bones, reports "already up to date" and leaves the
\* set of bones, their parents and their markers unchanged.
C6_CreateIsIdempotent ==
  Finished("Create") =>
    /\ last.created = Cardinality(MissingBefore)
    /\ DOMAIN bones = DOMAIN pre.bones \cup MissingBefore
    /\ (last.prev.op = "Create" /\ last.prev.result = "FINISHED") =>
         /\ last.created = 0
         /\ last.report = "already up to date"
         /\ DOMAIN bones = DOMAIN pre.bones
         /\ \A b \in DOMAIN bones :
              /\ bones[b].parent = pre.bones[b].parent
              /\ bones[b].prop = pre.bones[b].prop

\* ---- C7 ----------------------------------------------------------------
\* node.parent when it is a chain node
ChainParent(n) ==
  IF parentOf[n] # None /\ TypeProp(parentOf[n]) = "RE_CHAIN_NODE"
  THEN parentOf[n] ELSE None

\* C7: after a single call of ensure_physics_bones, whatever the order of
\* the nodes, every bone whose node has a chain-node parent is parented to
\* the bone named after that parent, and every managed bone whose node has
\* no chain-node parent has no parent.
C7_BonesMirrorNodes ==
  Finished("Create") =>
    \A n \in ActiveNodes :
      /\ ChainParent(n) # None => bones[n].parent = ChainParent(n)
      /\ (ChainParent(n) = None /\ bones[n].prop) => bones[n].parent = None

\* ---- C8 ----------------------------------------------------------------
\* ensure_physics_bones returned, or an error left it while bones were edited
EnsureReturned ==
  \/ last.op \in {"Create", "Enable"}
     /\ last.result \in {"FINISHED", "CANCELLED"}
  \/ last.op \in Ops /\ last.result = "RAISED"
     /\ last.report = "editing bones"

\* C8: when ensure_physics_bones returns, also when an error is raised while
\* bones are being edited, the active object, the selected objects and the
\* mode of the active object are what they were before the call.
C8_EnsureRestoresSelection == EnsureReturned => SelectionRestored

\* An error while editing, after a bone was made, with a mesh in EDIT mode
C8_Witness ==
  /\ last.op = "Create" /\ last.result = "RAISED"
  /\ last.report = "editing bones"
  /\ pre.mode = "EDIT" /\ pre.active = "mesh"
  /\ DOMAIN bones # DOMAIN pre.bones

\* ---- C9 ----------------------------------------------------------------
\* The bake got as far as switching modes
BakeBegan ==
  /\ last.op = "Bake"
  /\ last.report \in {"Baked physics preview",
                      "Failed to bake physics preview",
                      "mode_set(mode='POSE')"}

SelectedBones(bs) == {b \in DOMAIN bs : bs[b].select}

\* C9: on every exit of Bake Physics Preview once baking has begun (success,
\* bake failure, mode switch error) the active object, the selected objects
\* and the mode are what they were before, and so are the selected bones
\* when the armature was the active object in POSE mode.
C9_BakeRestoresSelection ==
  BakeBegan =>
    /\ SelectionRestored
    /\ (pre.active = "arm" /\ pre.mode = "POSE") =>
         SelectedBones(bones) = SelectedBones(pre.bones)

\* A finished bake with the armature in POSE mode and a bone selected that
\* the bake does not bake
C9_Witness ==
  /\ Finished("Bake")
  /\ pre.active = "arm" /\ pre.mode = "POSE"
  /\ SelectedBones(pre.bones) # {}
  /\ SelectedBones(pre.bones) # last.bake.bones

\* ---- C10 ---------------------------------------------------------------
\* Nothing leads from the active collection's nodes to an armature
NoArmatureBefore ==
  /\ \A n \in ActiveNodes : \A j \in 1..Len(pre.constraints[n]) :
       LET t == pre.constraints[n][j].target
       IN t = None \/ ObjType(t) # "ARMATURE"
  /\ pre.active = None \/ ObjType(pre.active) # "ARMATURE"
  /\ \A n \in ActiveNodes : n \notin DOMAIN pre.bones

\* C10: each of the four operators returns CANCELLED and modifies nothing
\* when the active chain collection is not set, when it holds no chain node,
\* or when no armature can be found for it.
C10_NoTargetCancels ==
  (last.op \in Ops
   /\ (chainCollection = None \/ ActiveNodes = {} \/ NoArmatureBefore)) =>
    /\ last.result = "CANCELLED"
    /\ NothingModified

\* A bake asked for on a chain for which no armature can be found
C10_Witness ==
  /\ last.op = "Bake" /\ last.result = "CANCELLED"
  /\ ActiveNodes # {} /\ NoArmatureBefore
  /\ pre.mode = "EDIT"

\* ---- C11 ---------------------------------------------------------------
\* At the moment of bpy.ops.nla.bake, bone b carries an unmuted
\* "RE Chain Preview" constraint that targets the chain node of its name
PreviewLiveAtBake(b) ==
  /\ b \in DOMAIN last.bake.pose
  /\ \E k \in 1..Len(last.bake.pose[b]) :
       /\ last.bake.pose[b][k].name = PHYSICS_PREVIEW_CONSTRAINT
       /\ last.bake.pose[b][k].target = b
       /\ ~last.bake.pose[b][k].mute

\* At the moment of bpy.ops.nla.bake, the BoneName/BoneRotation constraints
\* of node n are muted
NodeMutedAtBake(n) ==
  \A j \in 1..Len(last.bake.constraints[n]) :
    IsBoneConstraint(last.bake.constraints[n][j]) =>
      last.bake.constraints[n][j].mute

\* C11: after any sequence of Enable, Disable and Bake executions and
\* changes of the active chain collection, at the moment Bake Physics
\* Preview calls the host bake, every bone selected for baking has an
\* unmuted "RE Chain Preview" constraint targeting its chain node, and the
\* BoneName/BoneRotation constraints of those nodes are muted.
C11_BakeOnlyPreviewBones ==
  (last.op = "Bake" /\ last.bake.called) =>
    \A b \in last.bake.bones :
      /\ PreviewLiveAtBake(b)
      /\ NodeMutedAtBake(b)

\* ---- C12 ---------------------------------------------------------------
\* Bone b is in the armature under a chain node's name without the
\* RE_CHAIN_IS_PHYSICS_BONE marker: a bone the tool did not generate
IsUserNodeBone(b) ==
  /\ b \in ChainNodes
  /\ b \in DOMAIN bones
  /\ ~bones[b].prop

\* The step leaves bone b unmarked and keeps its matrix, length, connect
\* flag, parent and bone collection
UserBoneKept(b) ==
  /\ b \in DOMAIN bones'
  /\ ~bones'[b].prop
  /\ bones'[b].matrix = bones[b].matrix
  /\ bones'[b].length = bones[b].length
  /\ bones'[b].use_connect = bones[b].use_connect
  /\ bones'[b].parent = bones[b].parent
  /\ bones'[b].coll = bones[b].coll

\* C12: a bone that already existed in the armature under a chain node's
\* name and was not marked RE_CHAIN_IS_PHYSICS_BONE never acquires that
\* marker, and never has its matrix, length, connect flag, parent or bone
\* collection changed, by any execution of Create Physics Bones, Enable,
\* Disable or Bake.
C12_OnlyGeneratedBonesManaged ==
  [][\A b \in ChainNodes : IsUserNodeBone(b) => UserBoneKept(b)]_vars

\* ---- C13 ---------------------------------------------------------------
\* The BoneName/BoneRotation constraints of node n carry the
\* RE_CHAIN_PREVIEW_MUTED flag and are muted
BoneConstraintsFlaggedMuted(n) ==
  \A j \in 1..Len(constraints[n]) :
    IsBoneConstraint(constraints[n][j]) =>
      constraints[n][j].flag /\ constraints[n][j].mute

\* The preview of the active collection is in effect
PreviewInEffect ==
  \A n \in ActiveNodes :
    /\ BoneConstraintsFlaggedMuted(n)
    /\ HasLivePreview(n)

\* Every node constraint that carries the flag is muted
FlaggedAreMuted ==
  \A n \in ChainNodes : \A j \in 1..Len(constraints[n]) :
    constraints[n][j].flag => constraints[n][j].mute

\* C13: after any sequence of Create Physics Bones, Enable, Disable and
\* Bake executions on one chain collection and armature,
\* physicsPreviewEnabled is True exactly when the preview is in effect
\* (the nodes' BoneName/BoneRotation constraints flagged and muted, the node
\* bones' "RE Chain Preview" constraints unmuted), and every node constraint
\* that carries the flag is muted.
C13_ToggleTracksPreview ==
  (last.op \in Ops /\ ActiveNodes # {}) =>
    /\ physicsPreviewEnabled <=> PreviewInEffect
    /\ FlaggedAreMuted

\* ---- C14 ---------------------------------------------------------------
\* The chain nodes of the collections that are not the active one
OtherNodes == ChainNodes \ ActiveNodes

RECURSIVE PreviewConstraints(_)
\* The "RE Chain Preview" constraints among cs, in order, with their mute
\* state
PreviewConstraints(cs) ==
  IF cs = <<>> THEN <<>>
  ELSE IF Head(cs).name = PHYSICS_PREVIEW_CONSTRAINT
       THEN <<Head(cs)>> \o PreviewConstraints(Tail(cs))
       ELSE PreviewConstraints(Tail(cs))

\* The "RE Chain Preview" constraints of the bone named n in pose bones ps
PreviewOn(ps, n) ==
  IF n \in DOMAIN ps THEN PreviewConstraints(ps[n]) ELSE <<>>

\* C14: Disable Physics Preview, and Bake Physics Preview with its disable
\* step, leave another chain collection on the same armature untouched: the
\* mute state and flag of the other collection's node constraints, and the
\* mute state and presence of the "RE Chain Preview" constraints on the
\* bones named after the other collection's nodes, are unchanged.
C14_DisableLeavesOtherCollections ==
  (last.op \in {"Disable", "Bake"}) =>
    \A n \in OtherNodes :
      /\ constraints[n] = pre.constraints[n]
      /\ PreviewOn(pose, n) = PreviewOn(pre.pose, n)

\* The node-constraint half of C14 taken alone
OtherNodeConstraintsKept ==
  (last.op \in {"Disable", "Bake"}) =>
    \A n \in OtherNodes : constraints[n] = pre.constraints[n]

====
